---------------------------- MODULE Spec2Model ----------------------------
(***************************************************************************)
(* A model of equalizer.c: the FIR equalizer of virtual_oss.               *)
(*                                                                         *)
(* Doubles are modelled as exact rationals <<num, den>> (den > 0, lowest   *)
(* terms); <<0, 0>> stands for a non-finite result (a division by zero).   *)
(* The block sizes and window arguments used are those whose cosines and   *)
(* sines are rational, so the transforms are computed exactly.             *)
(* A configuration string is a sequence of one-character strings.          *)
(***************************************************************************)
EXTENDS Integers, Sequences, FiniteSets, TLC

-----------------------------------------------------------------------------
(* Double arithmetic, as exact rationals.                                  *)

Abs(x) == IF x < 0 THEN -x ELSE x

RECURSIVE GCD(_, _)
GCD(a, b) == IF b = 0 THEN a ELSE GCD(b, a % b)

Rat(n, d) ==
  IF d = 0 THEN <<0, 0>>
  ELSE LET g == GCD(Abs(n), Abs(d))
           s == IF d < 0 THEN -1 ELSE 1
       IN  <<(s * n) \div g, (s * d) \div g>>

R(n) == <<n, 1>>

RAdd(a, b) == Rat(a[1] * b[2] + b[1] * a[2], a[2] * b[2])
RSub(a, b) == Rat(a[1] * b[2] - b[1] * a[2], a[2] * b[2])
RMul(a, b) == Rat(a[1] * b[1], a[2] * b[2])
RDiv(a, b) == Rat(a[1] * b[2], a[2] * b[1])
RFinite(a) == a[2] # 0
RLe(a, b) == RFinite(a) /\ RFinite(b) /\ a[1] * b[2] <= b[1] * a[2]
RGe(a, b) == RLe(b, a)
RLt(a, b) == RFinite(a) /\ RFinite(b) /\ a[1] * b[2] < b[1] * a[2]

-----------------------------------------------------------------------------
(* sscanf(config, "%lf %lf %n", &next_f, &next_amp, &len), on the          *)
(* alphabet of digits, '-', ' ' and other characters.                      *)

Digits == <<"0", "1", "2", "3", "4", "5", "6", "7", "8", "9">>

IsDigit(c) == \E d \in 1..10 : Digits[d] = c

DigitVal(c) == (CHOOSE d \in 1..10 : Digits[d] = c) - 1

(* white space directive: skips any amount of white space, including none *)
RECURSIVE SkipSpace(_, _)
SkipSpace(s, p) ==
  IF p <= Len(s) /\ s[p] = " " THEN SkipSpace(s, p + 1) ELSE p

(* the digits of a number: <<value, position after the last digit>> *)
RECURSIVE ScanDigits(_, _, _)
ScanDigits(s, p, acc) ==
  IF p <= Len(s) /\ IsDigit(s[p])
  THEN ScanDigits(s, p + 1, 10 * acc + DigitVal(s[p]))
  ELSE <<acc, p>>

(* %lf: leading white space, an optional sign, at least one digit *)
ScanDouble(s, p) ==
  LET q   == SkipSpace(s, p)
      neg == q <= Len(s) /\ s[q] = "-"
      b   == IF neg THEN q + 1 ELSE q
      r   == ScanDigits(s, b, 0)
  IN  IF r[2] = b
      THEN [ok |-> FALSE, val |-> R(0), pos |-> p]
      ELSE [ok |-> TRUE, val |-> R(IF neg THEN -r[1] ELSE r[1]), pos |-> r[2]]

(* the whole call, reading at index p: the number of conversions made, the *)
(* two values and the count of characters %n stores                        *)
Sscanf(s, p) ==
  LET a == ScanDouble(s, p)
      b == ScanDouble(s, SkipSpace(s, a.pos))
  IN  IF ~a.ok THEN [count |-> 0, f |-> R(0), amp |-> R(0), len |-> 0]
      ELSE IF ~b.ok THEN [count |-> 1, f |-> a.val, amp |-> R(0), len |-> 0]
      ELSE [count |-> 2, f |-> a.val, amp |-> b.val,
            len |-> SkipSpace(s, b.pos) - p]


-----------------------------------------------------------------------------
(* cos and sin of m * pi/6, where rational.                                *)

CosPi6(m) ==
  CASE m % 12 = 0  -> R(1)
    [] m % 12 = 2  -> <<1, 2>>
    [] m % 12 = 3  -> R(0)
    [] m % 12 = 4  -> <<-1, 2>>
    [] m % 12 = 6  -> R(-1)
    [] m % 12 = 8  -> <<-1, 2>>
    [] m % 12 = 9  -> R(0)
    [] m % 12 = 10 -> <<1, 2>>

SinPi6(m) ==
  CASE m % 12 = 0  -> R(0)
    [] m % 12 = 1  -> <<1, 2>>
    [] m % 12 = 3  -> R(1)
    [] m % 12 = 5  -> <<1, 2>>
    [] m % 12 = 6  -> R(0)
    [] m % 12 = 7  -> <<-1, 2>>
    [] m % 12 = 9  -> R(-1)
    [] m % 12 = 11 -> <<-1, 2>>

(* Masking window value: 0.5 + 0.5 * cos(M_PI * x), x a rational *)
GetWindow(x) == RAdd(<<1, 2>>, RMul(<<1, 2>>, CosPi6((6 * x[1]) \div x[2])))

RECURSIVE RSum(_, _, _)
(* the sum of term[k] for k in lo..hi *)
RSum(term, lo, hi) ==
  IF lo > hi THEN R(0) ELSE RAdd(term[lo], RSum(term, lo + 1, hi))

(* fftw_execute of the FFTW_HC2R plan of size N (unnormalized): slot j of  *)
(* hc is the real part of bin j for j <= N/2, slot N-j the imaginary part  *)
(* of bin j for 0 < j < N/2                                                *)
HC2R(hc, N) ==
  [k \in 0..(N - 1) |->
     LET mid == [j \in 1..(N \div 2 - 1) |->
                   RMul(R(2),
                        RSub(RMul(hc[j], CosPi6((12 * j * k) \div N)),
                             RMul(hc[N - j], SinPi6((12 * j * k) \div N))))]
     IN  RAdd(RAdd(hc[0], RSum(mid, 1, N \div 2 - 1)),
              RMul(R(IF k % 2 = 0 THEN 1 ELSE -1), hc[N \div 2]))]

(* fftw_execute of the FFTW_R2HC plan of size N *)
R2HC(x, N) ==
  [k \in 0..(N - 1) |->
     IF k <= N \div 2
     THEN RSum([n \in 0..(N - 1) |->
                  RMul(x[n], CosPi6((12 * n * k) \div N))], 0, N - 1)
     ELSE RSub(R(0),
               RSum([n \in 0..(N - 1) |->
                       RMul(x[n], SinPi6((12 * n * (N - k)) \div N))],
                    0, N - 1))]

-----------------------------------------------------------------------------
(* The pure pieces of LoadFrequencyAmplification and EqualizerLoad.        *)

(* f = e->rate / e->block_size * i *)
BinFreq(r, N, k) == RMul(RDiv(r, R(N)), R(k))

(* the offset prev_f left out of the numerator *)
InterpolateNoOffset(f, pf, pa, nf, na) ==
  RAdd(RMul(RDiv(f, RSub(nf, pf)), RSub(na, pa)), pa)

(* ((f - prev_f) / (next_f - prev_f)) * (next_amp - prev_amp) + prev_amp *)
Interpolate(f, pf, pa, nf, na) ==
  RAdd(RMul(RDiv(RSub(f, pf), RSub(nf, pf)), RSub(na, pa)), pa)

(* the special rule left out *)
SeedPrevAmpNever(pf, pa, na) == pa

(* if (prev_f == 0.0) prev_amp = next_amp; *)
SeedPrevAmp(pf, pa, na) == IF pf = R(0) THEN na ELSE pa

(* the buffer left as it is *)
MemsetSkipped(buf, N) == buf

(* memset(e->fftw_freq, 0, buffer_size) *)
Memset(buf, N) == [k \in 0..(N - 1) |-> R(0)]

(* the slots one pass of the windowing loop reads and writes *)
WindowSrc(N, k) == k
WindowDst(N, k) == N \div 2 + k

(* one pass of the windowing loop: weight = GetWindow(i / (double)(N / 2)) / N *)
WindowStep(t, N, k) ==
  [t EXCEPT ![WindowDst(N, k)] =
     RMul(t[WindowSrc(N, k)], RDiv(GetWindow(Rat(k, N \div 2)), R(N)))]

(* the shift loop reading one slot too low *)
ShiftSrcOffByOne(N, k) == N - k - 1

(* the slots one pass of the shift loop reads and writes *)
ShiftSrc(N, k) == N - k
ShiftDst(N, k) == k

(* one pass of the shift loop *)
ShiftStep(t, N, k) == [t EXCEPT ![ShiftDst(N, k)] = t[ShiftSrc(N, k)]]

(* e->fftw_freq[i] /= (double)N, for every i *)
Scale(buf, N) == [k \in 0..(N - 1) |-> RDiv(buf[k], R(N))]

(* the result not tested *)
AfterLoadIgnored(ret) == "open"

(* if (!EqualizerLoad(&e, buffer)) continue; *)
AfterLoad(ret) == IF ret = 0 THEN "read" ELSE "open"

(* the channel loop left at the first error *)
NextChannelBreak(ch, error, C) == IF error # 0 THEN C ELSE ch + 1

(* ++fir.channel, whatever the ioctl returned *)
NextChannel(ch, error, C) == ch + 1


-----------------------------------------------------------------------------
(* The inputs.                                                             *)

(* -r: any double sscanf reads; 0 and negative values are not refused *)
Rates == {R(-8), R(0), R(8)}

(* -b: strtol's result; 0 and odd values are refused *)
Blocks == {0, 2, 3, 4}

(* the largest channel count tried *)
MaxChannels == 2

(* -c: strtol's result; 0 is refused *)
ChannelCounts == 0..MaxChannels

(* what malloc'ed memory may hold before it is written *)
Garbage == {R(0), R(1)}

(* the members of struct Equalizer that malloc or fftw_plan_r2r_1d set     *)
Members == {"fftw_time", "fftw_freq", "forward", "inverse"}

(* the datagrams read from the configuration socket *)
Configs ==
  { <<>>,
    <<"2", " ", "3">>,
    <<"1", " ", "2", " ", "4", " ", "3">>,
    <<"2", " ", "3", " ", "6", " ", "5">>,
    <<"5", " ", "1", " ", "3", " ", "2">>,
    <<"6", " ", "1", " ", "x">>,
    <<"2", " ", "1", " ", "9", " ", "3">>,
    <<"3", " ", "2", " ", "3", " ", "1">>,
    <<"2", " ", "3", " ", "x">>,
    <<"-", "2", " ", "1">>,
    <<"2">>,
    <<" ">> }

(* what open() returns: -1, or a descriptor above the ones in use (0 is in *)
(* use: it is the standard input, /dev/null after daemon(), or the socket) *)
OpenResults == {-1, 3}

(* what ioctl() returns *)
IoctlResults == {0, -1}

EX_USAGE == 64
EX_SOFTWARE == 70

-----------------------------------------------------------------------------
VARIABLES
  pc,             \* where the process is
  rate,           \* e.rate
  block_size,     \* e.block_size
  channels,       \* main's channels
  nulls,          \* the members of e that are NULL
  fftw_time,      \* e.fftw_time[0 .. block_size-1]
  fftw_freq,      \* e.fftw_freq[0 .. block_size-1]
  requested_freq, \* EqualizerLoad's copy of the sampled spectrum
  config,         \* the string EqualizerLoad is called with
  cursor,         \* LoadFrequencyAmplification's config pointer, as an index
  i,              \* the index of the for loop that is running
  prev_f, prev_amp, next_f, next_amp,
  caller,         \* "startup" (line 258) or "loop" (line 277)
  retval,         \* EqualizerLoad's retval
  fd,             \* the device descriptor
  fir_channel,    \* fir.channel
  exit_status,    \* the status the process exited with, -1 before
  attempts,       \* history: the ioctl calls made for the current message
  time_entry,     \* history: fftw_time when EqualizerLoad was entered
  freq_entry,     \* history: fftw_freq when EqualizerLoad was entered
  t0,             \* history: fftw_time as the inverse transform left it
  written,        \* history: the slots the running loop has written
  clobbered,      \* history: a loop read a slot it had written
  scanned,        \* history: the cursor at each sscanf call of this load
  last_ok         \* history: the string of the last load that returned 1

vars == <<pc, rate, block_size, channels, nulls, fftw_time, fftw_freq,
          requested_freq, config, cursor, i, prev_f, prev_amp, next_f,
          next_amp, caller, retval, fd, fir_channel, exit_status, attempts,
          time_entry, freq_entry, t0, written, clobbered, scanned, last_ok>>

params == <<rate, block_size, channels, nulls>>
lfa    == <<cursor, prev_f, prev_amp, next_f, next_amp, scanned>>
bufs   == <<fftw_time, fftw_freq, requested_freq>>
devio  == <<fd, fir_channel, attempts>>
hist   == <<time_entry, freq_entry, t0, written, clobbered, last_ok>>

(* no string: before the first load has returned 1 *)
NoConfig == <<"?">>

HalfN == block_size \div 2

(* the state when main is entered, the options not yet parsed *)
Init ==
  /\ pc = "getopt"
  /\ rate \in Rates
  /\ block_size \in Blocks
  /\ channels \in ChannelCounts
  /\ nulls = {}
  /\ fftw_time = <<>> /\ fftw_freq = <<>> /\ requested_freq = <<>>
  /\ config = <<>> /\ cursor = 1 /\ i = 0
  /\ prev_f = R(0) /\ prev_amp = R(1) /\ next_f = R(0) /\ next_amp = R(1)
  /\ caller = "startup" /\ retval = 0
  /\ fd = -1 /\ fir_channel = 0 /\ exit_status = -1
  /\ attempts = <<>>
  /\ time_entry = <<>> /\ freq_entry = <<>> /\ t0 = <<>>
  /\ written = {} /\ clobbered = FALSE /\ scanned = <<>>
  /\ last_ok = NoConfig

(* the option loop: a bad block size or channel count ends in Usage() *)
ParseOptions ==
  /\ pc = "getopt"
  /\ IF block_size = 0 \/ block_size % 2 # 0 \/ channels = 0
     THEN pc' = "exit" /\ exit_status' = EX_USAGE
     ELSE pc' = "init" /\ UNCHANGED exit_status
  /\ UNCHANGED <<params, bufs, config, i, lfa, caller, retval, devio, hist>>

(* EqualizerInit, then the call EqualizerLoad(&e, ""): no result of malloc *)
(* or fftw_plan_r2r_1d is tested                                           *)
EqualizerInit ==
  /\ pc = "init"
  /\ \E nz \in SUBSET Members, gt \in Garbage, gf \in Garbage :
       /\ nulls' = nz
       /\ fftw_time' = IF "fftw_time" \in nz THEN <<>>
                       ELSE [k \in 0..(block_size - 1) |-> gt]
       /\ fftw_freq' = IF "fftw_freq" \in nz THEN <<>>
                       ELSE [k \in 0..(block_size - 1) |-> gf]
  /\ config' = <<>> /\ caller' = "startup"
  /\ pc' = "load"
  /\ UNCHANGED <<rate, block_size, channels, requested_freq, i, lfa, retval,
                 devio, exit_status, hist>>

(* EqualizerInit with a NULL buffer: planning with FFTW_MEASURE writes the *)
(* arrays it is given, so the process may be killed inside the planner     *)
EqualizerInitCrash ==
  /\ pc = "init"
  /\ \E nz \in SUBSET Members :
       /\ nz \cap {"fftw_time", "fftw_freq"} # {}
       /\ nulls' = nz
  /\ pc' = "crashed"
  /\ UNCHANGED <<rate, block_size, channels, bufs, config, i, lfa, caller,
                 retval, devio, exit_status, hist>>


-----------------------------------------------------------------------------
(* EqualizerLoad, lines 127-133: retval = 0, the memset, and the entry of  *)
(* LoadFrequencyAmplification. memset through a NULL fftw_freq kills the   *)
(* process.                                                                *)
EqualizerLoadEnter ==
  /\ pc = "load"
  /\ retval' = 0
  /\ time_entry' = fftw_time /\ freq_entry' = fftw_freq
  /\ IF "fftw_freq" \in nulls
     THEN /\ pc' = "crashed"
          /\ UNCHANGED <<fftw_freq, cursor, i, prev_f, prev_amp, next_f,
                         next_amp, scanned>>
     ELSE /\ pc' = "lfa"
          /\ fftw_freq' = Memset(fftw_freq, block_size)
          /\ cursor' = 1 /\ i' = 0
          /\ prev_f' = R(0) /\ prev_amp' = R(1)
          /\ next_f' = R(0) /\ next_amp' = R(1)
          /\ scanned' = <<>>
  /\ UNCHANGED <<params, fftw_time, requested_freq, config, caller, devio,
                 exit_status, t0, written, clobbered, last_ok>>

(* the for loop is running and the while condition f >= next_f holds *)
WhileCond ==
  /\ pc = "lfa"
  /\ i <= HalfN
  /\ RGe(BinFreq(rate, block_size, i), next_f)

(* one pass of the while loop with *config == 0 *)
WhileEnd ==
  /\ WhileCond
  /\ cursor > Len(config)
  /\ prev_f' = next_f
  /\ next_f' = rate
  /\ next_amp' = next_amp
  /\ prev_amp' = SeedPrevAmp(next_f, next_amp, next_amp)
  /\ UNCHANGED <<pc, params, bufs, config, cursor, i, caller, retval, devio,
                 exit_status, hist, scanned>>

(* one pass of the while loop in which sscanf reads a pair with a larger   *)
(* frequency                                                               *)
WhileScan ==
  /\ WhileCond
  /\ cursor <= Len(config)
  /\ LET r == Sscanf(config, cursor) IN
       /\ r.count = 2
       /\ ~RLe(r.f, next_f)
       /\ cursor' = cursor + r.len
       /\ prev_f' = next_f
       /\ next_f' = r.f
       /\ next_amp' = r.amp
       /\ prev_amp' = SeedPrevAmp(next_f, next_amp, r.amp)
  /\ scanned' = Append(scanned, cursor)
  /\ UNCHANGED <<pc, params, bufs, config, i, caller, retval, devio,
                 exit_status, hist>>

(* sscanf reads a pair whose frequency is not larger: return 0 *)
WhileNonIncreasing ==
  /\ WhileCond
  /\ cursor <= Len(config)
  /\ LET r == Sscanf(config, cursor) IN
       /\ r.count = 2
       /\ RLe(r.f, next_f)
       /\ cursor' = cursor + r.len
       /\ prev_f' = next_f
       /\ prev_amp' = next_amp
       /\ next_f' = r.f
       /\ next_amp' = r.amp
  /\ scanned' = Append(scanned, cursor)
  /\ pc' = "ret"
  /\ UNCHANGED <<params, bufs, config, i, caller, retval, devio,
                 exit_status, hist>>

(* sscanf does not read two numbers: return 0 *)
WhileParseError ==
  /\ WhileCond
  /\ cursor <= Len(config)
  /\ LET r == Sscanf(config, cursor) IN
       /\ r.count # 2
       /\ prev_f' = next_f
       /\ prev_amp' = next_amp
       /\ next_f' = IF r.count = 1 THEN r.f ELSE next_f
  /\ scanned' = Append(scanned, cursor)
  /\ pc' = "ret"
  /\ UNCHANGED <<params, bufs, config, cursor, i, next_amp, caller, retval,
                 devio, exit_status, hist>>

(* lines 106-107 and ++i: the while condition is false *)
StoreBin ==
  /\ pc = "lfa"
  /\ i <= HalfN
  /\ ~RGe(BinFreq(rate, block_size, i), next_f)
  /\ fftw_freq' = [fftw_freq EXCEPT ![i] =
       Interpolate(BinFreq(rate, block_size, i), prev_f, prev_amp,
                   next_f, next_amp)]
  /\ i' = i + 1
  /\ UNCHANGED <<pc, params, fftw_time, requested_freq, config, lfa, caller,
                 retval, devio, exit_status, hist>>

(* the for loop ends: return 1, and EqualizerLoad goes on at line 135 *)
LoadFrequencyAmplificationDone ==
  /\ pc = "lfa"
  /\ i > HalfN
  /\ pc' = "inverse"
  /\ UNCHANGED <<params, bufs, config, i, lfa, caller, retval, devio,
                 exit_status, hist>>

(* lines 135-138: the copy of the sampled spectrum and the inverse         *)
(* transform. A NULL plan or time buffer kills the process.                *)
InverseTransform ==
  /\ pc = "inverse"
  /\ IF nulls \cap {"inverse", "fftw_time"} # {}
     THEN /\ pc' = "crashed"
          /\ UNCHANGED <<fftw_time, requested_freq, i, t0, written>>
     ELSE /\ requested_freq' = fftw_freq
          /\ fftw_time' = HC2R(fftw_freq, block_size)
          /\ t0' = fftw_time'
          /\ i' = 0
          /\ written' = {}
          /\ pc' = "window"
  /\ UNCHANGED <<params, fftw_freq, config, lfa, caller, retval, devio,
                 exit_status, time_entry, freq_entry, clobbered, last_ok>>

(* line 135: malloc returns NULL and memcpy writes through it *)
RequestedFreqAllocFails ==
  /\ pc = "inverse"
  /\ pc' = "crashed"
  /\ UNCHANGED <<params, bufs, config, i, lfa, caller, retval, devio,
                 exit_status, hist>>

(* lines 140-143: one pass of "multiply by symmetric window and shift";    *)
(* after the last pass the second loop starts at N / 2 - 1                 *)
WindowLoop ==
  /\ pc = "window"
  /\ i < HalfN
  /\ fftw_time' = WindowStep(fftw_time, block_size, i)
  /\ clobbered' = (clobbered \/ WindowSrc(block_size, i) \in written)
  /\ IF i + 1 < HalfN
     THEN /\ i' = i + 1
          /\ written' = written \cup {WindowDst(block_size, i)}
          /\ pc' = "window"
     ELSE /\ i' = HalfN - 1
          /\ written' = {}
          /\ pc' = "shift"
  /\ UNCHANGED <<params, fftw_freq, requested_freq, config, lfa, caller,
                 retval, devio, exit_status, time_entry, freq_entry, t0, last_ok>>

(* lines 144-146: one pass of the second loop *)
ShiftLoop ==
  /\ pc = "shift"
  /\ i > 0
  /\ fftw_time' = ShiftStep(fftw_time, block_size, i)
  /\ clobbered' = (clobbered \/ ShiftSrc(block_size, i) \in written)
  /\ written' = written \cup {ShiftDst(block_size, i)}
  /\ i' = i - 1
  /\ UNCHANGED <<pc, params, fftw_freq, requested_freq, config, lfa, caller,
                 retval, devio, exit_status, time_entry, freq_entry, t0, last_ok>>

(* line 147, after the second loop *)
ZeroFirst ==
  /\ pc = "shift"
  /\ i <= 0
  /\ fftw_time' = [fftw_time EXCEPT ![0] = R(0)]
  /\ pc' = "forward"
  /\ UNCHANGED <<params, fftw_freq, requested_freq, config, i, lfa, caller,
                 retval, devio, exit_status, hist>>

(* lines 149-171: the forward transform, the division by N, the debug      *)
(* output (which changes nothing), retval = 1 and the free                 *)
ForwardTransform ==
  /\ pc = "forward"
  /\ IF "forward" \in nulls
     THEN /\ pc' = "crashed"
          /\ UNCHANGED <<fftw_freq, requested_freq, retval, last_ok>>
     ELSE /\ fftw_freq' = Scale(R2HC(fftw_time, block_size), block_size)
          /\ requested_freq' = <<>>
          /\ retval' = 1
          /\ last_ok' = config
          /\ pc' = "ret"
  /\ UNCHANGED <<params, fftw_time, config, i, lfa, caller, devio,
                 exit_status, time_entry, freq_entry, t0, written, clobbered>>

(* line 173, return retval: main ignores it at line 258 and tests it at    *)
(* line 277                                                                *)
EqualizerLoadReturn ==
  /\ pc = "ret"
  /\ pc' = IF caller = "startup" THEN "socket" ELSE AfterLoad(retval)
  /\ UNCHANGED <<params, bufs, config, i, lfa, caller, retval, devio,
                 exit_status, hist>>


-----------------------------------------------------------------------------
(* main, lines 260-299.                                                    *)

(* socket() succeeds *)
Socket ==
  /\ pc = "socket"
  /\ pc' = "bind"
  /\ UNCHANGED <<params, bufs, config, i, lfa, caller, retval, devio,
                 exit_status, hist>>

(* socket() fails: errx(EX_SOFTWARE, "Cannot create socket") *)
SocketFails ==
  /\ pc = "socket"
  /\ pc' = "exit" /\ exit_status' = EX_SOFTWARE
  /\ UNCHANGED <<params, bufs, config, i, lfa, caller, retval, devio, hist>>

(* bind() succeeds *)
Bind ==
  /\ pc = "bind"
  /\ pc' = "read"
  /\ UNCHANGED <<params, bufs, config, i, lfa, caller, retval, devio,
                 exit_status, hist>>

(* bind() fails: errx(EX_SOFTWARE, "Cannot bind socket") *)
BindFails ==
  /\ pc = "bind"
  /\ pc' = "exit" /\ exit_status' = EX_SOFTWARE
  /\ UNCHANGED <<params, bufs, config, i, lfa, caller, retval, devio, hist>>

(* lines 275-277: a datagram is read and EqualizerLoad is called with it *)
Read ==
  /\ pc = "read"
  /\ \E msg \in Configs : config' = msg
  /\ caller' = "loop"
  /\ attempts' = <<>>
  /\ pc' = "load"
  /\ UNCHANGED <<params, bufs, i, lfa, retval, fd, fir_channel, exit_status,
                 hist>>

(* lines 279-285: open the device; only descriptor 0 counts as a failure   *)
Open ==
  /\ pc = "open"
  /\ \E d \in OpenResults :
       /\ fd' = d
       /\ pc' = IF d = 0 THEN "read" ELSE "ioctl"
  /\ fir_channel' = 0
  /\ UNCHANGED <<params, bufs, config, i, lfa, caller, retval, attempts,
                 exit_status, hist>>

(* lines 288-297: one pass of the channel loop; an error is reported by    *)
(* Message and the loop goes on                                            *)
Ioctl ==
  /\ pc = "ioctl"
  /\ fir_channel < channels
  /\ \E error \in IoctlResults :
       /\ attempts' = Append(attempts,
            [fd |-> fd, channel |-> fir_channel, number |-> 0,
             filter_size |-> block_size, filter_data |-> fftw_time,
             error |-> error, reported |-> (error # 0)])
       /\ fir_channel' = NextChannel(fir_channel, error, channels)
  /\ UNCHANGED <<pc, params, bufs, config, i, lfa, caller, retval, fd,
                 exit_status, hist>>

(* line 298: the channel loop is over; close(fd) and the next read *)
Close ==
  /\ pc = "ioctl"
  /\ fir_channel >= channels
  /\ fd' = -1
  /\ pc' = "read"
  /\ UNCHANGED <<params, bufs, config, i, lfa, caller, retval, fir_channel,
                 attempts, exit_status, hist>>

Next ==
  \/ ParseOptions
  \/ EqualizerInit
  \/ EqualizerInitCrash
  \/ EqualizerLoadEnter
  \/ WhileEnd
  \/ WhileScan
  \/ WhileNonIncreasing
  \/ WhileParseError
  \/ StoreBin
  \/ LoadFrequencyAmplificationDone
  \/ InverseTransform
  \/ RequestedFreqAllocFails
  \/ WindowLoop
  \/ ShiftLoop
  \/ ZeroFirst
  \/ ForwardTransform
  \/ EqualizerLoadReturn
  \/ Socket
  \/ SocketFails
  \/ Bind
  \/ BindFails
  \/ Read
  \/ Open
  \/ Ioctl
  \/ Close

Spec == Init /\ [][Next]_vars


-----------------------------------------------------------------------------
(* The window-and-shift step of EqualizerLoad alone, on any contents of    *)
(* the time buffer.                                                        *)

WindowBlocks == {2, 4, 6}

WindowInputs == {R(-1), R(2)}

(* the state at line 139, the inverse transform just done *)
InitWS ==
  /\ pc = "window"
  /\ rate = R(8)
  /\ block_size \in WindowBlocks
  /\ channels = 1
  /\ nulls = {}
  /\ fftw_time \in [0..(block_size - 1) -> WindowInputs]
  /\ fftw_freq = [k \in 0..(block_size - 1) |-> R(0)]
  /\ requested_freq = fftw_freq
  /\ config = <<>> /\ cursor = 1 /\ i = 0
  /\ prev_f = R(0) /\ prev_amp = R(1) /\ next_f = rate /\ next_amp = R(1)
  /\ caller = "loop" /\ retval = 0
  /\ fd = -1 /\ fir_channel = 0 /\ exit_status = -1
  /\ attempts = <<>>
  /\ time_entry = fftw_time /\ freq_entry = fftw_freq /\ t0 = fftw_time
  /\ written = {} /\ clobbered = FALSE /\ scanned = <<>>
  /\ last_ok = NoConfig

NextWS ==
  \/ WindowLoop
  \/ ShiftLoop
  \/ ZeroFirst

SpecWS == InitWS /\ [][NextWS]_vars

-----------------------------------------------------------------------------
(* C5: once line 147 has run, the time buffer h holds h[0] = 0,            *)
(* h[N/2 + k] = t[k] * w(k / (N/2)) / N for k in 0..N/2-1 (t the inverse   *)
(* transform's output) and h[N/2 - k] = h[N/2 + k] for k in 1..N/2-1, so   *)
(* no slot depends on t[N/2..N-1]; and neither loop ever reads a slot it   *)
(* has written.                                                            *)
FilterShape ==
  /\ ~clobbered
  /\ pc = "forward" =>
       /\ fftw_time[0] = R(0)
       /\ \A k \in 0..(HalfN - 1) :
            fftw_time[HalfN + k] =
              RDiv(RMul(t0[k], GetWindow(Rat(k, HalfN))), R(block_size))
       /\ \A k \in 1..(HalfN - 1) :
            fftw_time[HalfN - k] = fftw_time[HalfN + k]

(* a filter of 6 taps built from an output that is not symmetric *)
FilterShapeWitness ==
  /\ pc = "forward"
  /\ block_size = 6
  /\ t0[1] # t0[5]
  /\ t0[1] # t0[2]
  /\ fftw_time[1] = fftw_time[5]


-----------------------------------------------------------------------------
(* The reference the sampler is compared with: the breakpoints of the      *)
(* whole text, read ahead of time, and the piecewise-linear function       *)
(* through them.                                                           *)

RECURSIVE ParseFrom(_, _)
ParseFrom(s, p) ==
  IF p > Len(s) THEN <<>>
  ELSE LET r == Sscanf(s, p)
       IN  IF r.count = 2
           THEN <<[f |-> r.f, amp |-> r.amp]>> \o ParseFrom(s, p + r.len)
           ELSE <<>>

Breakpoints(s) == ParseFrom(s, 1)

(* the breakpoints with the implicit points (0, first gain) and            *)
(* (rate, last gain); the empty list is the flat response 1                *)
Points(s, r) ==
  LET b == Breakpoints(s)
  IN  IF b = <<>>
      THEN <<[f |-> R(0), amp |-> R(1)], [f |-> r, amp |-> R(1)]>>
      ELSE <<[f |-> R(0), amp |-> b[1].amp]>> \o b
           \o <<[f |-> r, amp |-> b[Len(b)].amp]>>

(* the gain at f = r * k / N: next is the first point above f, prev the    *)
(* point before it                                                         *)
RefGain(s, r, N, k) ==
  LET f   == Rat(r[1] * k, r[2] * N)
      pts == Points(s, r)
      nx  == CHOOSE j \in 2..Len(pts) :
               /\ RLt(f, pts[j].f)
               /\ \A m \in 2..(j - 1) : ~RLt(f, pts[m].f)
      a   == pts[nx - 1]
      b   == pts[nx]
  IN  RAdd(a.amp, RMul(RDiv(RSub(f, a.f), RSub(b.f, a.f)),
                       RSub(b.amp, a.amp)))

(* the claim's reference, word for word: the breakpoints read so far (n of *)
(* them) with the implicit points (0, first gain) and (rate, last gain     *)
(* read); prev is the last point at or below f, next the first point above *)
ConsumedPoints(s, r, n) ==
  LET b == SubSeq(Breakpoints(s), 1, n)
  IN  IF b = <<>>
      THEN <<[f |-> R(0), amp |-> R(1)], [f |-> r, amp |-> R(1)]>>
      ELSE <<[f |-> R(0), amp |-> b[1].amp]>> \o b
           \o <<[f |-> r, amp |-> b[Len(b)].amp]>>

RefGainConsumed(s, r, N, k, n) ==
  LET f   == Rat(r[1] * k, r[2] * N)
      pts == ConsumedPoints(s, r, n)
      a   == pts[CHOOSE j \in 1..Len(pts) :
                   /\ RLe(pts[j].f, f)
                   /\ \A m \in (j + 1)..Len(pts) : ~RLe(pts[m].f, f)]
      b   == pts[CHOOSE j \in 1..Len(pts) :
                   /\ RLt(f, pts[j].f)
                   /\ \A m \in 1..(j - 1) : ~RLt(f, pts[m].f)]
  IN  RAdd(a.amp, RMul(RDiv(RSub(f, a.f), RSub(b.f, a.f)),
                       RSub(b.amp, a.amp)))

(* the filter the design yields for a string: the spectrum of reference    *)
(* gains with no sine terms, transformed, windowed and centred             *)
RefFilter(s, r, N) ==
  LET t == HC2R([k \in 0..(N - 1) |->
                   IF k <= N \div 2 THEN RefGain(s, r, N, k) ELSE R(0)], N)
  IN  [k \in 0..(N - 1) |->
         IF k = 0 THEN R(0)
         ELSE LET d == Abs(k - N \div 2)
              IN  RDiv(RMul(t[d], GetWindow(Rat(d, N \div 2))), R(N))]

(* two breakpoints in a row, the second frequency not above the first *)
HasNonIncreasingPair(b) ==
  \E j \in 1..(Len(b) - 1) : RLe(b[j + 1].f, b[j].f)

LoadPcs == {"load", "lfa", "inverse", "window", "shift", "forward", "ret"}
LoopPcs == {"read", "open", "ioctl"}

-----------------------------------------------------------------------------
(* C1: when EqualizerLoad has returned 0 for a message, fftw_time holds    *)
(* what it held when the call was entered and no ioctl has been issued for *)
(* the message; the device is only reached after a load that returned 1.   *)
FailedLoadKeepsFilter ==
  /\ (pc \in {"ret", "read"} /\ caller = "loop" /\ retval = 0) =>
       (fftw_time = time_entry /\ attempts = <<>>)
  /\ pc \in {"open", "ioctl"} => retval = 1

(* a message is refused while a filter other than the flat one is active *)
FailedLoadKeepsFilterWitness ==
  /\ pc = "read" /\ caller = "loop" /\ retval = 0
  /\ scanned # <<>>
  /\ last_ok \notin {NoConfig, <<>>}
  /\ fftw_time # RefFilter(<<>>, rate, block_size)

(* C2: a string with two breakpoints in a row whose second frequency is    *)
(* not above the first makes EqualizerLoad return 0 and leaves the filter  *)
(* as it was, wherever the frequencies lie relative to rate/2.             *)
NonIncreasingRejected ==
  (pc = "ret" /\ caller = "loop" /\ HasNonIncreasingPair(Breakpoints(config)))
    => (retval = 0 /\ fftw_time = time_entry)

EndpointGainsAnywhere ==
  LET b == Breakpoints(config) IN
    (pc = "inverse" /\ b # <<>> /\ ~HasNonIncreasingPair(b)) =>
      /\ fftw_freq[0] = b[1].amp
      /\ fftw_freq[HalfN] = b[Len(b)].amp

(* C4, amended: for an accepted string with at least one breakpoint, bin 0 *)
(* holds the first gain, and bin N/2 holds the last gain when no           *)
(* breakpoint frequency is above rate/2.                                   *)
EndpointGains ==
  LET b == Breakpoints(config) IN
    (pc = "inverse" /\ b # <<>>) =>
      /\ fftw_freq[0] = b[1].amp
      /\ (\A j \in 1..Len(b) : RLe(b[j].f, RDiv(rate, R(2)))) =>
           fftw_freq[HalfN] = b[Len(b)].amp

(* two breakpoints at or below rate/2, the first gain not 1 *)
EndpointGainsWitness ==
  /\ pc = "inverse"
  /\ Len(Breakpoints(config)) = 2
  /\ \A j \in 1..2 : RLe(Breakpoints(config)[j].f, RDiv(rate, R(2)))
  /\ fftw_freq[0] = R(2)
  /\ fftw_freq[HalfN] = R(3)


(* C6: the filter a load that returns 1 leaves in fftw_time is the one the *)
(* design yields for (string, rate, N), whatever the buffers held before;  *)
(* so a load of the string of the last successful load leaves the filter   *)
(* that was there.                                                         *)
FilterDependsOnlyOnConfig ==
  /\ (pc = "forward" \/ (pc \in {"ret", "open", "ioctl"} /\ retval = 1)) =>
       fftw_time = RefFilter(config, rate, block_size)
  /\ (pc = "forward" /\ config = last_ok) => fftw_time = time_entry

(* the same string loaded again, with sine slots in use and the spectrum   *)
(* of the diagnostics left in fftw_freq by the load before                 *)
FilterDependsOnlyOnConfigWitness ==
  /\ pc = "forward"
  /\ config = last_ok
  /\ config # <<>>
  /\ block_size = 4
  /\ freq_entry # [k \in 0..3 |-> R(0)]
  /\ fftw_time[3] # R(0)

(* C7: after a load that returned 1 the channel loop calls ioctl once for  *)
(* each channel 0, 1, ..., C-1 in this order, each time with filter_size N *)
(* and the time buffer, reports each error, and goes on to the next read   *)
(* whatever the calls returned.                                            *)
DeliveryCoversAllChannels ==
  LET wellFormed ==
        \A j \in 1..Len(attempts) :
          /\ attempts[j].channel = j - 1
          /\ attempts[j].filter_size = block_size
          /\ attempts[j].filter_data = fftw_time
          /\ attempts[j].reported = (attempts[j].error # 0)
  IN  /\ pc = "open" => retval = 1 /\ attempts = <<>>
      /\ pc = "ioctl" =>
           retval = 1 /\ wellFormed /\ Len(attempts) = fir_channel
      /\ (pc = "read" /\ caller = "loop" /\ retval = 1) =>
           wellFormed /\ Len(attempts) = channels

(* two channels, the ioctl on channel 0 failed, the next read is reached *)
DeliveryCoversAllChannelsWitness ==
  /\ pc = "read" /\ caller = "loop" /\ retval = 1
  /\ channels = 2
  /\ Len(attempts) = 2
  /\ attempts[1].error # 0
  /\ attempts[2].channel = 1

(* C8: a failed malloc or fftw_plan_r2r_1d keeps the process out of        *)
(* EqualizerLoad and of the request loop, and every exit for a startup     *)
(* error carries a status other than 0.                                    *)
StartupFailureStops ==
  /\ nulls # {} => pc \notin (LoadPcs \cup LoopPcs)
  /\ pc = "exit" => exit_status # 0

(* C9: for an accepted string every bin 0..N/2 holds the reference         *)
(* interpolation at rate*i/N, over the breakpoints read extended with      *)
(* (0, first gain) and (rate, last gain read), and also over those of the  *)
(* whole text; within one load sscanf is never called twice at the same    *)
(* place nor further back; and next_f differs from prev_f whenever line    *)
(* 107 divides.                                                            *)
SamplerMatchesReference ==
  /\ pc = "inverse" =>
       \A k \in 0..HalfN :
         /\ fftw_freq[k] =
              RefGainConsumed(config, rate, block_size, k, Len(scanned))
         /\ fftw_freq[k] = RefGain(config, rate, block_size, k)
  /\ \A a, b \in DOMAIN scanned : a < b => scanned[a] < scanned[b]
  /\ (pc = "lfa" /\ i <= HalfN /\ ~WhileCond) => next_f # prev_f

(* a bin strictly between two breakpoints, its gain not a breakpoint gain *)
SamplerMatchesReferenceWitness ==
  /\ pc = "inverse"
  /\ block_size = 4
  /\ Len(scanned) = 2
  /\ fftw_freq[1] = <<7, 3>>

(* C10: every call of EqualizerLoad ends, for every rate the options       *)
(* accept. The scan of a bin ends when each pass of the while loop moves   *)
(* on: a pass that reads a pair advances config, and a pass at the end of  *)
(* the string has to change the locals the loop condition reads, or else   *)
(* the same pass is repeated for ever.                                     *)
ReloadTerminates ==
  (WhileCond /\ cursor > Len(config)) => ENABLED <<WhileEnd>>_vars

=============================================================================
